---- MODULE Spec2Model ----
(***************************************************************************)
(* PythonWhisperCPP: main.py (argument handling and the batch loop) and    *)
(* whisper.py (the Whisper engine: path derivation, the existence gate,    *)
(* ffmpeg staging, the whisper.cpp invocation and the relocation of the    *)
(* transcript).                                                            *)
(*                                                                         *)
(* A video path is a record [parent, stem, suffix]; every other path is a  *)
(* record [parent, name].  The filesystem fs is the set of paths that      *)
(* exist (regular files, and the logs directory).  The external tools are  *)
(* the environment: whether a program can be started is fixed in env, what *)
(* a started tool writes is chosen at each invocation.                     *)
(***************************************************************************)
EXTENDS Integers, Sequences, FiniteSets, TLC

VARIABLES
    pc,           \* position in main(): parse, construct, collect, loop, report, done, raised
    exc,          \* the exception that ended main(), or "None"
    args,         \* the Arguments dataclass
    env,          \* the machine: cpu count, directory listings, startable programs
    fs,           \* the paths that exist
    fs0,          \* the filesystem when this run of main() started
    whisper,      \* the Whisper object, Null before its construction
    input_files,  \* main.py input_files
    idx,          \* number of input files the loop has taken
    to_create,    \* main.py to_create
    exists,       \* main.py exists
    log_open,     \* the log paths whose handle is open
    calls,        \* subprocess.run invocations of this run, in order
    out,          \* status lines printed by this run, in order
    last,         \* what the latest create_subtitles call saw and did, Null before
    run,          \* which run of main() over the same command line this is
    prev          \* how the previous run ended and what it invoked, Null in the first

vars == <<pc, exc, args, env, fs, fs0, whisper, input_files, idx, to_create,
          exists, log_open, calls, out, last, run, prev>>

(***************************************************************************)
(* Bounds of the model.                                                    *)
(***************************************************************************)
MaxFiles == 2      \* longest directory listing
MaxRuns == 2       \* runs of main() over one command line
MaxCpu == 2        \* largest os.cpu_count()
MaxThreads == 3    \* largest thread count given on the command line

Null == [null |-> TRUE]

(***************************************************************************)
(* Program constants.                                                      *)
(***************************************************************************)
video_extensions == {".mp4", ".mkv", ".avi", ".webm"}
temp_path == "/tmp"
logs_dir == "logs"
FfmpegThreadsDefault == 2

(***************************************************************************)
(* The files the input can name: two videos with the same stem in          *)
(* different directories, a third video, and a file that is no video.      *)
(***************************************************************************)
World == { [parent |-> "in",     stem |-> "a", suffix |-> ".mp4"],
           [parent |-> "in/sub", stem |-> "a", suffix |-> ".mkv"],
           [parent |-> "in",     stem |-> "b", suffix |-> ".webm"],
           [parent |-> "in",     stem |-> "c", suffix |-> ".txt"] }

InputDir == [parent |-> ".", stem |-> "in", suffix |-> ""]

(***************************************************************************)
(* whisper.py 40-48: the path derivations.                                 *)
(***************************************************************************)
_get_temp_wav_path(file) == [parent |-> temp_path, name |-> file.stem \o ".wav"]

_get_temp_srt_path(file) == [parent |-> temp_path, name |-> file.stem \o ".wav.srt"]

_get_final_srt_file(file) == [parent |-> file.parent, name |-> file.stem \o ".en.srt"]

\* whisper.py 54
LogFilePath(file) == [parent |-> logs_dir, name |-> file.stem \o ".log"]

LogsDirPath == [parent |-> ".", name |-> logs_dir]

\* whisper.cpp --output-srt writes <input>.srt beside its input.
WhisperOutputPath(wav) == [parent |-> wav.parent, name |-> wav.name \o ".srt"]

(***************************************************************************)
(* The machine.  The transcription executable lives in the model's         *)
(* grandparent directory; a listing of that directory is a sequence of     *)
(* entries in glob order.                                                  *)
(***************************************************************************)
GpReadme == [name |-> "whisper.cpp/README.md", is_file |-> TRUE, x_ok |-> FALSE]

GpModels == [name |-> "whisper.cpp/models", is_file |-> FALSE, x_ok |-> TRUE]

GpMain == [name |-> "whisper.cpp/main", is_file |-> TRUE, x_ok |-> TRUE]

Grandparents == { <<GpReadme, GpModels>>, <<GpReadme, GpModels, GpMain>> }

ExecutableArgs == {"None", "whisper.cpp/main"}

\* The program named exe can be started: it is an executable file of the machine.
\* str(None) is "None", which names no program.
Startable(exe, e) ==
    \E i \in 1..Len(e.grandparent) :
        /\ e.grandparent[i].name = exe
        /\ e.grandparent[i].is_file
        /\ e.grandparent[i].x_ok

Range(s) == { s[i] : i \in 1..Len(s) }

\* Directory listings: sequences of distinct files, in enumeration order.
Listings == { s \in UNION { [1..n -> World] : n \in 0..MaxFiles } :
                \A i, j \in 1..Len(s) : i # j => s[i] # s[j] }

IsVideo(file) == file.suffix \in video_extensions

\* What the filesystem may hold for these files before a run: final subtitles,
\* and temp transcripts of the same stems in the shared temp directory (left by
\* an interrupted run, by a run over another video of that stem, or by hand).
Leftovers(files) ==
    { _get_final_srt_file(f) : f \in { g \in files : IsVideo(g) } }
        \cup { _get_temp_srt_path(f) : f \in { g \in files : IsVideo(g) } }

(***************************************************************************)
(* main.py 23-43: Arguments.__post_init__.                                 *)
(***************************************************************************)
\* A suffix test that takes any file with a suffix.
HasVideoSuffixAny(file) == file.suffix # ""

\* main.py 28: the suffix test of a single input file
HasVideoSuffix(file) == file.suffix \in {".mp4", ".mkv", ".avi", ".webm"}

\* main.py 38-43: the first entry that is a file with executable permission
RECURSIVE DiscoverExecutable(_)
DiscoverExecutable(listing) ==
    IF listing = <<>> THEN "None"
    ELSE IF Head(listing).is_file /\ Head(listing).x_ok THEN Head(listing).name
    ELSE DiscoverExecutable(Tail(listing))

\* main.py 26-32: "ValueError" when an existing file has no video extension
PostInitError(a, e) ==
    IF e.input_is_file /\ ~HasVideoSuffix(a.input) THEN "ValueError" ELSE "None"

\* main.py 30-43: the fields __post_init__ sets
PostInit(a, e) ==
    [a EXCEPT !.is_file = IF e.input_is_file THEN "True" ELSE "False",
              !.executable = IF a.executable = "None"
                             THEN DiscoverExecutable(e.grandparent)
                             ELSE a.executable]

\* main.py 121-122: parse_args(), which builds Arguments
ParseArgs ==
    /\ pc = "parse"
    /\ IF PostInitError(args, env) # "None"
       THEN /\ pc' = "raised"
            /\ exc' = PostInitError(args, env)
            /\ args' = args
       ELSE /\ pc' = "construct"
            /\ exc' = exc
            /\ args' = PostInit(args, env)
    /\ UNCHANGED <<env, fs, fs0, whisper, input_files, idx, to_create, exists,
                   log_open, calls, out, last, run, prev>>

(***************************************************************************)
(* whisper.py 9-38: Whisper.__init__.                                      *)
(***************************************************************************)
EmptyPath == [parent |-> ".", name |-> ""]

\* A constructor that stores the thread count it is given.
ClampThreadsNot(threads, cpu_count) == threads

\* whisper.py 21-31: a thread count above the cpu count becomes the cpu count
ClampThreads(threads, cpu_count) ==
    IF threads > cpu_count THEN cpu_count ELSE threads

WhisperInit(whisper_executable, force_creation, ffmpeg_threads, whisper_threads, cpu_count) ==
    [ _whisper_executable |-> whisper_executable,
      _force_creation |-> force_creation,
      _ffmpeg_threads |-> ClampThreads(ffmpeg_threads, cpu_count),
      _whisper_threads |-> ClampThreads(whisper_threads, cpu_count),
      _input_file |-> EmptyPath,
      _temp_wav_file |-> EmptyPath,
      _temp_srt_file |-> EmptyPath,
      _log_file |-> EmptyPath,
      _final_srt_file |-> EmptyPath ]

\* main.py 124-130
Construct ==
    /\ pc = "construct"
    /\ whisper' = WhisperInit(args.executable, args.force_creation,
                              args.ffmpeg_threads, args.whisper_threads, env.cpu_count)
    /\ pc' = "collect"
    /\ UNCHANGED <<exc, args, env, fs, fs0, input_files, idx, to_create, exists,
                   log_open, calls, out, last, run, prev>>

(***************************************************************************)
(* main.py 132-138: the input files.                                       *)
(***************************************************************************)
RECURSIVE SelectVideos(_)
SelectVideos(listing) ==
    IF listing = <<>> THEN <<>>
    ELSE IF Head(listing).suffix \in video_extensions
         THEN <<Head(listing)>> \o SelectVideos(Tail(listing))
         ELSE SelectVideos(Tail(listing))

CollectInputFiles(a, e) ==
    IF a.is_file = "True" THEN <<a.input>> ELSE SelectVideos(e.rglob)

CollectInputs ==
    /\ pc = "collect"
    /\ input_files' = CollectInputFiles(args, env)
    /\ pc' = "loop"
    /\ UNCHANGED <<exc, args, env, fs, fs0, whisper, idx, to_create, exists,
                   log_open, calls, out, last, run, prev>>

(***************************************************************************)
(* whisper.py 51-126: the pipeline of one input file.                      *)
(***************************************************************************)
\* whisper.py 51-58: the paths of this input; os.makedirs of the logs directory
SetInputFile(w, input_file) ==
    [w EXCEPT !._input_file = input_file,
              !._log_file = LogFilePath(input_file),
              !._temp_wav_file = _get_temp_wav_path(input_file),
              !._temp_srt_file = _get_temp_srt_path(input_file),
              !._final_srt_file = _get_final_srt_file(input_file)]

\* A gate that forgets the force flag.
ShouldCreateNoForce(w, files) == w._final_srt_file \notin files

\* whisper.py 75: the gate of create_subtitles
ShouldCreate(w, files) == w._final_srt_file \notin files \/ w._force_creation

\* whisper.py 108-110: a temp wav left behind is removed before ffmpeg runs
RemoveStaleWav(w, files) == files \ {w._temp_wav_file}

\* A move that loses the file instead of putting it at dst.
ShutilMoveLosesFile(files, src, dst) ==
    IF src \in files
    THEN [raised |-> FALSE, fs |-> files \ {src}]
    ELSE [raised |-> TRUE, fs |-> files]

\* A move that does not notice a missing src.
ShutilMoveLenient(files, src, dst) ==
    [raised |-> FALSE, fs |-> (files \ {src}) \cup {dst}]

\* whisper.py 94: shutil.move raises when src does not exist; otherwise src
\* becomes dst, replacing a dst that exists
ShutilMove(files, src, dst) ==
    IF src \in files
    THEN [raised |-> FALSE, fs |-> (files \ {src}) \cup {dst}]
    ELSE [raised |-> TRUE, fs |-> files]

\* whisper.py 60-64
cleanup(w, files) == files \ {w._temp_wav_file}

\* whisper.py 66-101.  ffmpeg_writes and whisper_writes are what the two tools
\* do once started: subprocess.run does not look at their exit status.
create_subtitles(w0, files0, e, input_file, ffmpeg_writes, whisper_writes) ==
    LET w == SetInputFile(w0, input_file)
        f1 == files0 \cup {LogsDirPath}
        gate == ShouldCreate(w, f1)
        seen == [file |-> input_file,
                 final_existed |-> w._final_srt_file \in files0,
                 srt_was_there |-> w._temp_srt_file \in files0,
                 force |-> w._force_creation]
        \* 76: open(self._log_file, "w")
        f2 == f1 \cup {w._log_file}
        \* 77, 103-126: _create_wav
        f3 == RemoveStaleWav(w, f2)
        ffmpeg_call == [kind |-> "ffmpeg", program |-> "ffmpeg", input |-> input_file]
        ffmpeg_starts == e.ffmpeg_on_path
        f4 == IF ffmpeg_writes THEN f3 \cup {w._temp_wav_file} ELSE f3
        \* 79-90: subprocess.run of the whisper executable
        whisper_call == [kind |-> "whisper", program |-> w._whisper_executable,
                         input |-> w._temp_wav_file]
        whisper_starts == Startable(w._whisper_executable, e)
        \* the tool writes <wav>.srt only when it has a wav to read
        wrote == whisper_writes /\ w._temp_wav_file \in f4
        f5 == IF wrote THEN f4 \cup {WhisperOutputPath(w._temp_wav_file)} ELSE f4
        \* 94: shutil.move
        mv == ShutilMove(f5, w._temp_srt_file, w._final_srt_file)
        \* 97-98
        f6 == cleanup(w, mv.fs)
    IN  IF ~gate
        THEN [whisper |-> w, fs |-> f1, exc |-> "None", opened |-> {}, calls |-> <<>>,
              out |-> << <<"SKIP", w._final_srt_file>> >>,
              last |-> seen @@ [gate |-> FALSE, whisper_returned |-> FALSE,
                                whisper_wrote |-> FALSE, moved |-> FALSE]]
        ELSE IF ~ffmpeg_starts
        THEN [whisper |-> w, fs |-> f3, exc |-> "FileNotFoundError",
              opened |-> {w._log_file}, calls |-> <<ffmpeg_call>>,
              out |-> << <<"WAV", w._temp_wav_file>> >>,
              last |-> seen @@ [gate |-> TRUE, whisper_returned |-> FALSE,
                                whisper_wrote |-> FALSE, moved |-> FALSE]]
        ELSE IF ~whisper_starts
        THEN [whisper |-> w, fs |-> f4, exc |-> "FileNotFoundError",
              opened |-> {w._log_file}, calls |-> <<ffmpeg_call, whisper_call>>,
              out |-> << <<"WAV", w._temp_wav_file>>, <<"CREATE", w._final_srt_file>> >>,
              last |-> seen @@ [gate |-> TRUE, whisper_returned |-> FALSE,
                                whisper_wrote |-> FALSE, moved |-> FALSE]]
        ELSE IF mv.raised
        THEN [whisper |-> w, fs |-> mv.fs, exc |-> "FileNotFoundError",
              opened |-> {}, calls |-> <<ffmpeg_call, whisper_call>>,
              out |-> << <<"WAV", w._temp_wav_file>>, <<"CREATE", w._final_srt_file>> >>,
              last |-> seen @@ [gate |-> TRUE, whisper_returned |-> TRUE,
                                whisper_wrote |-> wrote, moved |-> FALSE]]
        ELSE [whisper |-> w, fs |-> f6, exc |-> "None",
              opened |-> {}, calls |-> <<ffmpeg_call, whisper_call>>,
              out |-> << <<"WAV", w._temp_wav_file>>, <<"CREATE", w._final_srt_file>> >>,
              last |-> seen @@ [gate |-> TRUE, whisper_returned |-> TRUE,
                                whisper_wrote |-> wrote, moved |-> TRUE]]

(***************************************************************************)
(* main.py 140-161: the loop over the input files and the report.          *)
(***************************************************************************)
\* A loop that never takes the dry-run branch.
TakesDryRunBranchNever(a) == FALSE

\* main.py 144
TakesDryRunBranch(a) == a.dry_run

\* whisper.py 144-145: the parameters should_create_srt can be given by keyword
should_create_srt_params == {"input_file"}

\* main.py 145: the keywords of the call
should_create_srt_keywords == {"input_file", "force"}

\* A call with a keyword the function does not have raises TypeError.
CallError(keywords, params) ==
    IF keywords \subseteq params THEN "None" ELSE "TypeError"

\* whisper.py 144-152
should_create_srt(input_file, files) ==
    IF _get_final_srt_file(input_file) \in files THEN FALSE ELSE TRUE

\* main.py 144-150
DryRunStep ==
    /\ pc = "loop"
    /\ idx < Len(input_files)
    /\ TakesDryRunBranch(args)
    /\ LET file == input_files[idx + 1]
           err == CallError(should_create_srt_keywords, should_create_srt_params)
       IN  /\ idx' = idx + 1
           /\ IF err # "None"
              THEN /\ pc' = "raised"
                   /\ exc' = err
                   /\ UNCHANGED <<to_create, exists, out>>
              ELSE /\ UNCHANGED <<pc, exc>>
                   /\ IF should_create_srt(file, fs)
                      THEN /\ out' = Append(out, <<"CREATE", _get_final_srt_file(file)>>)
                           /\ to_create' = to_create + 1
                           /\ exists' = exists
                      ELSE /\ out' = Append(out, <<"EXISTS", _get_final_srt_file(file)>>)
                           /\ exists' = exists + 1
                           /\ to_create' = to_create
    /\ UNCHANGED <<args, env, fs, fs0, whisper, input_files, log_open, calls, last,
                   run, prev>>

\* main.py 151-153
CreateSubtitlesStep ==
    /\ pc = "loop"
    /\ idx < Len(input_files)
    /\ ~TakesDryRunBranch(args)
    /\ \E ffmpeg_writes \in BOOLEAN, whisper_writes \in BOOLEAN :
         LET r == create_subtitles(whisper, fs, env, input_files[idx + 1],
                                   ffmpeg_writes, whisper_writes)
         IN  /\ whisper' = r.whisper
             /\ fs' = r.fs
             /\ log_open' = log_open \cup r.opened
             /\ calls' = calls \o r.calls
             /\ out' = out \o r.out
             /\ last' = r.last @@ [exc |-> r.exc, calls |-> r.calls, out |-> r.out]
             /\ idx' = idx + 1
             /\ IF r.exc # "None"
                THEN pc' = "raised" /\ exc' = r.exc
                ELSE UNCHANGED <<pc, exc>>
    /\ UNCHANGED <<args, env, fs0, input_files, to_create, exists, run, prev>>

\* main.py 143, 155-161: the loop is over; a dry run prints its two counters
LoopEnd ==
    /\ pc = "loop"
    /\ idx = Len(input_files)
    /\ out' = IF args.dry_run THEN Append(out, <<"RESULTS", to_create, exists>>) ELSE out
    /\ pc' = "done"
    /\ UNCHANGED <<exc, args, env, fs, fs0, whisper, input_files, idx, to_create,
                   exists, log_open, calls, last, run, prev>>

\* The same command line is run again on the filesystem the run left.  The
\* process that ended took its open handles with it.
Rerun ==
    /\ pc \in {"done", "raised"}
    /\ run < MaxRuns
    /\ run' = run + 1
    /\ prev' = [pc |-> pc, exc |-> exc, calls |-> calls]
    /\ pc' = "parse"
    /\ exc' = "None"
    /\ args' = env.argv
    /\ fs0' = fs
    /\ whisper' = Null
    /\ input_files' = <<>>
    /\ idx' = 0
    /\ to_create' = 0
    /\ exists' = 0
    /\ log_open' = {}
    /\ calls' = <<>>
    /\ out' = <<>>
    /\ last' = Null
    /\ UNCHANGED <<env, fs>>

(***************************************************************************)
(* The command lines and machines a run starts from.                       *)
(***************************************************************************)
Arguments(ffmpeg_threads, whisper_threads, input, force_creation, executable, dry_run) ==
    [ model_path |-> "whisper.cpp/models/ggml.bin",
      ffmpeg_threads |-> ffmpeg_threads,
      whisper_threads |-> whisper_threads,
      input |-> input,
      force_creation |-> force_creation,
      executable |-> executable,
      dry_run |-> dry_run,
      is_file |-> "None" ]

Start(a, cpu_count, input_is_file, rglob, grandparent, ffmpeg_on_path, files) ==
    /\ pc = "parse"
    /\ exc = "None"
    /\ args = a
    /\ env = [cpu_count |-> cpu_count, input_is_file |-> input_is_file, rglob |-> rglob,
              grandparent |-> grandparent, ffmpeg_on_path |-> ffmpeg_on_path, argv |-> a]
    /\ fs = files
    /\ fs0 = files
    /\ whisper = Null
    /\ input_files = <<>>
    /\ idx = 0
    /\ to_create = 0
    /\ exists = 0
    /\ log_open = {}
    /\ calls = <<>>
    /\ out = <<>>
    /\ last = Null
    /\ run = 1
    /\ prev = Null

\* Default thread counts (main.py 70, 79); a single file or a directory.
Init ==
    \E force_creation \in BOOLEAN, dry_run \in BOOLEAN, executable \in ExecutableArgs,
       grandparent \in Grandparents, ffmpeg_on_path \in BOOLEAN :
        \/ \E file \in World :
             \E files \in SUBSET Leftovers({file}) :
                 Start(Arguments(FfmpegThreadsDefault, MaxCpu, file, force_creation,
                               executable, dry_run),
                     MaxCpu, TRUE, <<>>, grandparent, ffmpeg_on_path, files)
        \/ \E rglob \in Listings :
             \E files \in SUBSET Leftovers(Range(rglob)) :
               Start(Arguments(FfmpegThreadsDefault, MaxCpu, InputDir, force_creation,
                               executable, dry_run),
                     MaxCpu, FALSE, rglob, grandparent, ffmpeg_on_path, files)

Next ==
    \/ ParseArgs
    \/ Construct
    \/ CollectInputs
    \/ DryRunStep
    \/ CreateSubtitlesStep
    \/ LoopEnd
    \/ Rerun

Spec == Init /\ [][Next]_vars

\* Thread counts of every kind against every cpu count, over one video.
InitThreads ==
    \E ffmpeg_threads \in -1..MaxThreads, whisper_threads \in -1..MaxThreads,
       cpu_count \in 1..MaxCpu, dry_run \in BOOLEAN :
        \E file \in { f \in World : f.stem = "a" /\ f.suffix = ".mp4" } :
            Start(Arguments(ffmpeg_threads, whisper_threads, InputDir, FALSE,
                            "whisper.cpp/main", dry_run),
                  cpu_count, FALSE, <<file>>, <<GpReadme, GpModels, GpMain>>, TRUE, {})

SpecThreads == InitThreads /\ [][Next]_vars

(***************************************************************************)
(* Properties.                                                             *)
(***************************************************************************)
Ended == pc \in {"done", "raised"}

Invoked(cs, kind) == \E i \in 1..Len(cs) : cs[i].kind = kind

\* C1 as stated: a create_subtitles call invokes the audio extraction and the
\* transcription exactly when the final subtitle did not exist at the call or
\* force is set; otherwise it invokes nothing and prints SKIP.
C1_SpawnsBothIffGate ==
    last # Null =>
        LET open == ~last.final_existed \/ last.force
        IN  /\ (Invoked(last.calls, "ffmpeg") /\ Invoked(last.calls, "whisper")) <=> open
            /\ ~open => /\ last.calls = <<>>
                        /\ last.out = << <<"SKIP", _get_final_srt_file(last.file)>> >>

\* C1 amended: the audio extraction is invoked exactly when the final subtitle
\* did not exist at the call or force is set, the transcription exactly when in
\* addition the ffmpeg program could be started; otherwise nothing is invoked
\* and SKIP is printed.
C1_GateDecidesInvocations ==
    last # Null =>
        LET open == ~last.final_existed \/ last.force
        IN  /\ Invoked(last.calls, "ffmpeg") <=> open
            /\ Invoked(last.calls, "whisper") <=> (open /\ env.ffmpeg_on_path)
            /\ ~open => /\ last.calls = <<>>
                        /\ last.out = << <<"SKIP", _get_final_srt_file(last.file)>> >>
            /\ open => \A i \in 1..Len(last.out) : last.out[i][1] # "SKIP"

C1_Witness ==
    /\ last # Null
    /\ last.final_existed
    /\ last.force
    /\ Invoked(last.calls, "ffmpeg")
    /\ Invoked(last.calls, "whisper")

\* C2: a dry run invokes no subprocess and leaves the filesystem as it found
\* it: no temp audio, temp transcript, log file, logs directory or final
\* subtitle appears or disappears, and no log handle is opened.
C2_DryRunTouchesNothing ==
    args.dry_run =>
        /\ calls = <<>>
        /\ fs = fs0
        /\ log_open = {}
        /\ last = Null

C2_Witness ==
    /\ args.dry_run
    /\ Ended
    /\ idx >= 1
    /\ fs # {}

\* C3: a dry run over the enumerated files ends with a report whose counters
\* sum to the number of files, "to create" counting the files whose final
\* subtitle does not exist or that are forced.
C3_DryRunReports ==
    (args.dry_run /\ Ended /\ exc # "ValueError") =>
        /\ pc = "done"
        /\ out # <<>>
        /\ out[Len(out)] = <<"RESULTS", to_create, exists>>
        /\ to_create + exists = Len(input_files)
        /\ to_create = Cardinality({ i \in 1..Len(input_files) :
                           \/ _get_final_srt_file(input_files[i]) \notin fs
                           \/ args.force_creation })

\* C4: when a batch that is no dry run has ended, every enumerated file was
\* put through the pipeline, whether or not an earlier one failed.
C4_BatchGoesOn ==
    (~args.dry_run /\ Ended /\ exc # "ValueError") => idx = Len(input_files)

\* C5: with no executable given and none to discover, the run stops before
\* any processing: no file enters the pipeline, nothing is opened or written,
\* no subprocess is invoked, and the run does not complete.
C5_NoExecutableFailsFast ==
    ( /\ env.argv.executable = "None"
      /\ \A i \in 1..Len(env.grandparent) :
             ~(env.grandparent[i].is_file /\ env.grandparent[i].x_ok) ) =>
        /\ idx = 0
        /\ calls = <<>>
        /\ log_open = {}
        /\ fs = fs0
        /\ pc # "done"

\* C6: an existing single input file without a video extension is rejected
\* with ValueError while the arguments are built: no engine is constructed, no
\* file is enumerated or processed, nothing is invoked, opened, written or
\* printed.
C6_BadExtensionRejected ==
    (env.input_is_file /\ env.argv.input.suffix \notin {".mp4", ".mkv", ".avi", ".webm"}) =>
        /\ pc \in {"parse", "raised"}
        /\ pc = "raised" => exc = "ValueError"
        /\ whisper = Null
        /\ input_files = <<>>
        /\ idx = 0
        /\ calls = <<>>
        /\ log_open = {}
        /\ fs = fs0
        /\ out = <<>>

C6_Witness ==
    /\ env.input_is_file
    /\ env.argv.input.suffix = ".txt"
    /\ pc = "raised"
    /\ exc = "ValueError"

\* C7: after a run without force that processed every file without error, a
\* second run of the same command line invokes no subprocess.
C7_SecondRunIdle ==
    (run >= 2 /\ ~args.dry_run /\ ~args.force_creation) =>
        (prev.pc = "done" => calls = <<>>)

C7_Witness ==
    /\ run = 2
    /\ ~args.dry_run
    /\ ~args.force_creation
    /\ prev.pc = "done"
    /\ prev.calls # <<>>
    /\ pc = "done"
    /\ Len(input_files) = 2
    /\ \A i \in 1..Len(out) : out[i][1] = "SKIP"

\* C8: the engine is constructed whatever the thread counts; a count above the
\* cpu count is stored as the cpu count, any other count unchanged, so neither
\* stored count exceeds the cpu count.
C8_ThreadsClamped ==
    /\ pc = "collect" => whisper # Null
    /\ whisper # Null =>
        /\ args.ffmpeg_threads > env.cpu_count => whisper._ffmpeg_threads = env.cpu_count
        /\ args.ffmpeg_threads <= env.cpu_count => whisper._ffmpeg_threads = args.ffmpeg_threads
        /\ args.whisper_threads > env.cpu_count => whisper._whisper_threads = env.cpu_count
        /\ args.whisper_threads <= env.cpu_count => whisper._whisper_threads = args.whisper_threads
        /\ whisper._ffmpeg_threads <= env.cpu_count
        /\ whisper._whisper_threads <= env.cpu_count

C8_Witness ==
    /\ whisper # Null
    /\ args.ffmpeg_threads > env.cpu_count
    /\ whisper._ffmpeg_threads = env.cpu_count
    /\ args.whisper_threads < env.cpu_count
    /\ whisper._whisper_threads = args.whisper_threads

FinalUntouched == (_get_final_srt_file(last.file) \in fs) <=> last.final_existed

\* C9 as stated: whenever the transcription tool returns without writing the
\* temp transcript, create_subtitles raises at the relocation and the final
\* subtitle is not written, whatever the temp directory held before.
C9_NoOutputAlwaysFails ==
    (last # Null /\ last.gate /\ last.whisper_returned /\ ~last.whisper_wrote) =>
        /\ last.exc = "FileNotFoundError"
        /\ ~last.moved
        /\ FinalUntouched

\* C9 amended: the same, when no temp transcript of that stem was in the temp
\* directory at the call.
C9_NoOutputFailsWithoutLeftover ==
    ( /\ last # Null
      /\ last.gate
      /\ last.whisper_returned
      /\ ~last.whisper_wrote
      /\ ~last.srt_was_there ) =>
        /\ last.exc = "FileNotFoundError"
        /\ pc = "raised"
        /\ ~last.moved
        /\ FinalUntouched
        /\ log_open = {}

C9_Witness ==
    /\ last # Null
    /\ last.gate
    /\ last.whisper_returned
    /\ ~last.whisper_wrote
    /\ ~last.srt_was_there
    /\ last.final_existed
    /\ last.exc = "FileNotFoundError"

\* C10: once create_subtitles has ended, normally or by an exception, the
\* handle of the log file is closed.
C10_LogClosedOnEveryExit ==
    last # Null => log_open = {}

====
